---------------------------- MODULE Spec2Model ----------------------------
(***************************************************************************)
(* State-machine model of src/main.py: direct Fourier summation of an      *)
(* irregularly sampled time series (dirty spectrum and PSF), the CLEAN     *)
(* deconvolution loop and the clean-beam reconstruction.                   *)
(*                                                                         *)
(* Arithmetic.  The program computes in IEEE doubles; the model computes   *)
(* in exact rationals <<num, den>> (den > 0, lowest terms) and complex     *)
(* numbers [re, im] of rationals.  Sample times are integer multiples of   *)
(* the tick 1/(4*freq_inc), so that exp(-2*pi*i*f*t) at grid frequency     *)
(* f = k*freq_inc is the exact fourth root of unity (-i)^(k*t).  Arrays    *)
(* are functions on 0..n-1, as numpy indexes them.  Of the clean beam and  *)
(* the clean spectrum the model keeps the shapes, not the values (the      *)
(* Gaussian's values are not rational).                                    *)
(***************************************************************************)
EXTENDS Integers, Sequences, FiniteSets

\* ------------------------------------------------------------------ bounds
MaxSamples == 3
MaxTime == 3
MaxK == 3
MaxIter == 3

\* ------------------------------------------------------- rational numbers
IAbs(n) == IF n < 0 THEN -n ELSE n

RECURSIVE GCD(_, _)
GCD(a, b) == IF b = 0 THEN a ELSE GCD(b, a % b)

\* n/d in lowest terms with a positive denominator (d # 0)
Rat(n, d) ==
  LET g == GCD(IAbs(n), IAbs(d))
      s == IF d < 0 THEN -1 ELSE 1
  IN  <<(s * n) \div g, (s * d) \div g>>

RZero == <<0, 1>>
ROne == <<1, 1>>
RInt(n) == <<n, 1>>
RAdd(a, b) ==
  LET g == GCD(a[2], b[2])
  IN  Rat(a[1] * (b[2] \div g) + b[1] * (a[2] \div g), (a[2] \div g) * b[2])
RNeg(a) == <<-a[1], a[2]>>
RSub(a, b) == RAdd(a, RNeg(b))
RMul(a, b) ==
  LET g1 == GCD(IAbs(a[1]), b[2])
      g2 == GCD(IAbs(b[1]), a[2])
  IN  Rat((a[1] \div g1) * (b[1] \div g2), (a[2] \div g2) * (b[2] \div g1))
\* a / b for b # 0
RDiv(a, b) == RMul(a, Rat(b[2], b[1]))
RLt(a, b) == a[1] * b[2] < b[1] * a[2]
RLe(a, b) == a[1] * b[2] <= b[1] * a[2]

\* largest k with k*k <= n; the exact root when n is a perfect square
ISqrt(n) == CHOOSE k \in 0..n : k * k <= n /\ n < (k + 1) * (k + 1)
\* square root of a non-negative rational (exact on squares of rationals)
RSqrt(a) == Rat(ISqrt(a[1]), ISqrt(a[2]))

\* -------------------------------------------------------- complex numbers
Cx(re, im) == [re |-> re, im |-> im]
CZero == Cx(RZero, RZero)
CAdd(z, w) == Cx(RAdd(z.re, w.re), RAdd(z.im, w.im))
CSub(z, w) == Cx(RSub(z.re, w.re), RSub(z.im, w.im))
\* complex times real scalar
CScale(z, r) == Cx(RMul(z.re, r), RMul(z.im, r))
CAbsSq(z) == RAdd(RMul(z.re, z.re), RMul(z.im, z.im))
\* np.abs of a complex number: a real
CAbs(z) == RSqrt(CAbsSq(z))
\* .real and .imag of a real (float64) scalar
FloatReal(x) == x
FloatImag(x) == RZero

\* numpy's ordering of complex numbers: by real part, then by imaginary part
CLexLt(z, w) == RLt(z.re, w.re) \/ (z.re = w.re /\ RLt(z.im, w.im))

\* ---------------------------------------------------------------- arrays
Size(a) == Cardinality(DOMAIN a)
Zeros(n) == [j \in 0..(n - 1) |-> CZero]
\* a[k] as Python indexes: k in -n..-1 counts from the end
InRange(a, k) == -Size(a) <= k /\ k < Size(a)
PyIndex(a, k) ==
  IF 0 <= k /\ k < Size(a) THEN a[k]
  ELSE IF -Size(a) <= k /\ k < 0 THEN a[k + Size(a)]
  ELSE CZero

VARIABLES
  pc,                \* position in main()
  times, values,     \* the time series: times strictly increasing (ticks)
  num_freqs,         \* K, the number of positive frequencies
  freqs, amps,       \* spectrum grid (multiples of freq_inc), dirty spectrum
  freqs_psf, psf,    \* PSF grid and PSF
  gain, num_iter,    \* CLEAN parameters
  iter,              \* the loop variable i: iterations started so far
  clean_components, residual,
  idx_max, res_amp, psf_mag, temp, aRe, aIm, sub,   \* locals of the last iteration
  sub_total,         \* history: elementwise sum of the vectors subtracted
  psf_reads,         \* history: PSF indices read by the last iteration
  warned,            \* iteration named by the divide-by-zero warning, or -1
  hwhm, sigma, extent, beam_size, spectrum_size   \* beam reconstruction

vars == <<pc, times, values, num_freqs, freqs, amps, freqs_psf, psf, gain,
          num_iter, iter, clean_components, residual, idx_max, res_amp,
          psf_mag, temp, aRe, aIm, sub, sub_total, psf_reads, warned,
          hwhm, sigma, extent, beam_size, spectrum_size>>

\* ------------------------------------------------------------------ inputs
ValueSet == {-1, 1, 2}
GainSet == {RZero, Rat(1, 10), Rat(1, 2), ROne}

\* strictly increasing sample times, 1..MaxSamples of them
TimeSeqs ==
  UNION {{t \in [1..n -> 0..MaxTime] : \A a \in 1..(n - 1) : t[a] < t[a + 1]}
         : n \in 1..MaxSamples}

\* -------------------------------------------------- spectral estimator
\* np.arange(lo, hi + 1) as an array
Arange(lo, hi) == [j \in 0..(hi - lo) |-> lo + j]

\* np.exp(-1j * 2 * pi * f * t) for f = k * freq_inc, t in ticks
Phase(k, t) ==
  LET e == (k * t) % 4
  IN  CASE e = 0 -> [re |-> 1, im |-> 0]
        [] e = 1 -> [re |-> 0, im |-> -1]
        [] e = 2 -> [re |-> -1, im |-> 0]
        [] OTHER -> [re |-> 0, im |-> 1]

\* np.sum(v * phase) over the first n samples
RECURSIVE SumValuesPhase(_, _, _, _)
SumValuesPhase(t, v, k, n) ==
  IF n = 0 THEN [re |-> 0, im |-> 0]
  ELSE LET s == SumValuesPhase(t, v, k, n - 1)
           p == Phase(k, t[n])
       IN  [re |-> s.re + v[n] * p.re, im |-> s.im + v[n] * p.im]

\* np.sum(phase) over the first n samples
RECURSIVE SumPhase(_, _, _)
SumPhase(t, k, n) ==
  IF n = 0 THEN [re |-> 0, im |-> 0]
  ELSE LET s == SumPhase(t, k, n - 1)
           p == Phase(k, t[n])
       IN  [re |-> s.re + p.re, im |-> s.im + p.im]

\* a /= times.size
DivideBySize(s, n) == Cx(Rat(s.re, n), Rat(s.im, n))

SpectrumGrid(K) == Arange(-K, K)
\* variant: the PSF grid built over the spectrum's own range
PsfGridNarrow(K) == Arange(-K, K)


PsfGrid(K) == Arange(-K * 2, K * 2)

DirtySpectrum(t, v, grid) ==
  [j \in DOMAIN grid |-> DivideBySize(SumValuesPhase(t, v, grid[j], Len(t)), Len(t))]
\* variant: the PSF left unnormalised (no `psf /= times.size`)
PsfSpectrumRaw(t, grid) ==
  [j \in DOMAIN grid |->
    LET z == SumPhase(t, grid[j], Len(t)) IN Cx(RInt(z.re), RInt(z.im))]


PsfSpectrum(t, grid) ==
  [j \in DOMAIN grid |-> DivideBySize(SumPhase(t, grid[j], Len(t)), Len(t))]

Empty == [j \in {} |-> CZero]

Init ==
  /\ pc = "dirty"
  /\ times \in TimeSeqs
  /\ values \in [1..Len(times) -> ValueSet]
  /\ num_freqs \in 0..MaxK
  /\ freqs = Empty /\ amps = Empty /\ freqs_psf = Empty /\ psf = Empty
  /\ gain = RZero /\ num_iter = 0 /\ iter = 0
  /\ clean_components = Empty /\ residual = Empty
  /\ idx_max = 0 /\ res_amp = CZero /\ psf_mag = RZero /\ temp = RZero
  /\ aRe = RZero /\ aIm = RZero /\ sub = Empty
  /\ sub_total = Empty /\ psf_reads = {} /\ warned = -1
  /\ hwhm = 0 /\ sigma = RZero /\ extent = 0 /\ beam_size = 0 /\ spectrum_size = 0

ComputeDirty ==
  /\ pc = "dirty"
  /\ freqs' = SpectrumGrid(num_freqs)
  /\ amps' = DirtySpectrum(times, values, freqs')
  /\ pc' = "psf"
  /\ UNCHANGED <<times, values, num_freqs, freqs_psf, psf, gain, num_iter, iter,
                 clean_components, residual, idx_max, res_amp, psf_mag, temp,
                 aRe, aIm, sub, sub_total, psf_reads, warned, hwhm, sigma,
                 extent, beam_size, spectrum_size>>

ComputePSF ==
  /\ pc = "psf"
  /\ freqs_psf' = PsfGrid(num_freqs)
  /\ psf' = PsfSpectrum(times, freqs_psf')
  /\ pc' = "clean_init"
  /\ UNCHANGED <<times, values, num_freqs, freqs, amps, gain, num_iter, iter,
                 clean_components, residual, idx_max, res_amp, psf_mag, temp,
                 aRe, aIm, sub, sub_total, psf_reads, warned, hwhm, sigma,
                 extent, beam_size, spectrum_size>>

\* ------------------------------------------------------- CLEAN deconvolver
\* c + np.argmax(a[c:]): the first index from c on that holds the maximum
ArgMaxFrom(a, c) ==
  CHOOSE j \in c..(Size(a) - 1) :
    /\ \A k \in c..(Size(a) - 1) : ~CLexLt(a[j], a[k])
    /\ \A k \in c..(j - 1) : CLexLt(a[k], a[j])

\* variant: the peak searched in the dirty spectrum instead of the residual
PeakIndexOfDirty(R, dirty) == ArgMaxFrom(dirty, Size(dirty) \div 2)

\* c = amps.shape[0] // 2; idx_max = c + np.argmax(residual[c:])
PeakIndex(R, dirty) == ArgMaxFrom(R, Size(dirty) \div 2)

\* psf_mag = np.abs(psf[idx_max * 2])
CouplingMag(p, idx) == CAbs(PyIndex(p, idx * 2))

\* temp = 1 - psf_mag**2
Temp(m) == RSub(ROne, RMul(m, m))

\* aRe = res_amp.real * (1 - psf_mag.real) - (res_amp.imag * psf_mag.imag); aRe /= temp
PeakRe(ra, m, tmp) ==
  RDiv(RSub(RMul(ra.re, RSub(ROne, FloatReal(m))), RMul(ra.im, FloatImag(m))), tmp)

\* aIm = res_amp.imag * (1 + psf_mag.real) - (res_amp.real * psf_mag.imag); aIm /= temp
PeakIm(ra, m, tmp) ==
  RDiv(RSub(RMul(ra.im, RAdd(ROne, FloatReal(m))), RMul(ra.re, FloatImag(m))), tmp)

\* variant: the component also added, conjugated, at the mirror index
AddComponentMirrored(C, idx, re, im, g) ==
  [j \in DOMAIN C |->
    IF j = idx THEN CAdd(C[j], CScale(Cx(re, im), g))
    ELSE IF j = Size(C) - 1 - idx THEN CAdd(C[j], CScale(Cx(re, RNeg(im)), g))
    ELSE C[j]]

\* clean_components[idx_max] += (aRe + 1j * aIm) * gain
AddComponent(C, idx, re, im, g) ==
  [C EXCEPT ![idx] = CAdd(@, CScale(Cx(re, im), g))]

\* variant: the entry left unscaled (no `sub[j] *= gain`)
SubEntryNoGain(p, j, idx, n, re, im, g) ==
  LET w1 == PyIndex(p, j - idx + (n - 1))
      w2 == PyIndex(p, j + idx)
      sre == RAdd(RMul(re, RAdd(w1.re, w2.re)), RMul(im, RSub(w2.im, w1.im)))
      sim == RAdd(RMul(re, RAdd(w1.im, w2.im)), RMul(im, RSub(w1.re, w2.re)))
  IN  Cx(sre, sim)

\* one entry of the subtraction vector
SubEntry(p, j, idx, n, re, im, g) ==
  LET w1 == PyIndex(p, j - idx + (n - 1))
      w2 == PyIndex(p, j + idx)
      sre == RAdd(RMul(re, RAdd(w1.re, w2.re)), RMul(im, RSub(w2.im, w1.im)))
      sim == RAdd(RMul(re, RAdd(w1.im, w2.im)), RMul(im, RSub(w1.re, w2.re)))
  IN  CScale(Cx(sre, sim), g)

\* sub = np.zeros_like(residual); for j in range(freqs.size): sub[j] = ...
SubVector(p, idx, n, re, im, g) ==
  [j \in 0..(n - 1) |-> SubEntry(p, j, idx, n, re, im, g)]

\* variant: only the searched (non-negative-frequency) half is updated
SubtractUpperHalf(R, s) ==
  [j \in DOMAIN R |-> IF j < Size(R) \div 2 THEN R[j] ELSE CSub(R[j], s[j])]

\* residual -= sub
Subtract(R, s) == [j \in DOMAIN R |-> CSub(R[j], s[j])]

\* PSF indices the subtraction loop reads
LoopReads(idx, n) ==
  {j - idx + (n - 1) : j \in 0..(n - 1)} \cup {j + idx : j \in 0..(n - 1)}

\* variant: `continue` in place of `break`
AfterDegenerateContinue(i) == [pc |-> "clean", iter |-> i + 1]

\* where a degenerate coupling leaves the loop: `break` ends it at iteration i
AfterDegenerate(i) == [pc |-> "beam", iter |-> i]

CleanInit ==
  /\ pc = "clean_init"
  /\ gain' \in GainSet
  /\ num_iter' \in 0..MaxIter
  /\ clean_components' = Zeros(Size(amps))
  /\ residual' = amps
  /\ sub_total' = Zeros(Size(amps))
  /\ iter' = 0
  /\ pc' = "clean"
  /\ UNCHANGED <<times, values, num_freqs, freqs, amps, freqs_psf, psf,
                 idx_max, res_amp, psf_mag, temp, aRe, aIm, sub, psf_reads,
                 warned, hwhm, sigma, extent, beam_size, spectrum_size>>

\* an iteration that reaches `break`: temp == 0
CleanBreak ==
  /\ pc = "clean" /\ iter < num_iter
  /\ LET idx == PeakIndex(residual, amps)
         m == CouplingMag(psf, idx)
     IN  /\ InRange(psf, idx * 2)
         /\ Temp(m) = RZero
         /\ idx_max' = idx
         /\ res_amp' = residual[idx]
         /\ psf_mag' = m
         /\ temp' = Temp(m)
         /\ psf_reads' = {idx * 2}
         /\ warned' = iter
         /\ pc' = AfterDegenerate(iter).pc
         /\ iter' = AfterDegenerate(iter).iter
  /\ UNCHANGED <<times, values, num_freqs, freqs, amps, freqs_psf, psf, gain,
                 num_iter, clean_components, residual, aRe, aIm, sub,
                 sub_total, hwhm, sigma, extent, beam_size, spectrum_size>>

\* an iteration that runs to its end (or stops on an IndexError)
CleanStep ==
  /\ pc = "clean" /\ iter < num_iter
  /\ LET idx == PeakIndex(residual, amps)
         ra == residual[idx]
         m == CouplingMag(psf, idx)
         tmp == Temp(m)
         n == Size(freqs)
     IN  IF ~InRange(psf, idx * 2)
         THEN /\ idx_max' = idx /\ res_amp' = ra
              /\ psf_reads' = {idx * 2}
              /\ pc' = "IndexError"
              /\ UNCHANGED <<psf_mag, temp, aRe, aIm, clean_components, sub,
                             residual, sub_total, iter>>
         ELSE /\ tmp # RZero
              /\ idx_max' = idx /\ res_amp' = ra
              /\ psf_mag' = m /\ temp' = tmp
              /\ aRe' = PeakRe(ra, m, tmp)
              /\ aIm' = PeakIm(ra, m, tmp)
              /\ clean_components' = AddComponent(clean_components, idx, aRe', aIm', gain)
              /\ psf_reads' = {idx * 2} \cup LoopReads(idx, n)
              /\ IF \A k \in LoopReads(idx, n) : InRange(psf, k)
                 THEN /\ sub' = SubVector(psf, idx, n, aRe', aIm', gain)
                      /\ residual' = Subtract(residual, sub')
                      /\ sub_total' = [j \in DOMAIN sub_total |-> CAdd(sub_total[j], sub'[j])]
                      /\ iter' = iter + 1
                      /\ pc' = "clean"
                 ELSE /\ pc' = "IndexError"
                      /\ UNCHANGED <<sub, residual, sub_total, iter>>
  /\ UNCHANGED <<times, values, num_freqs, freqs, amps, freqs_psf, psf, gain,
                 num_iter, warned, hwhm, sigma, extent, beam_size, spectrum_size>>

\* range(num_iter) is exhausted
CleanExit ==
  /\ pc = "clean" /\ iter = num_iter
  /\ pc' = "beam"
  /\ UNCHANGED <<times, values, num_freqs, freqs, amps, freqs_psf, psf, gain,
                 num_iter, iter, clean_components, residual, idx_max, res_amp,
                 psf_mag, temp, aRe, aIm, sub, sub_total, psf_reads, warned,
                 hwhm, sigma, extent, beam_size, spectrum_size>>

\* ------------------------------------------------------ beam reconstructor
\* np.abs(z) <= 0.5, decided on the squares
AbsLeHalf(z) == RLe(CAbsSq(z), Rat(1, 4))

\* np.argmax of a boolean array: the first True, and 0 when there is none
ArgMaxBool(b) ==
  CHOOSE k \in DOMAIN b :
    /\ \A j \in DOMAIN b : b[j] => b[k]
    /\ \A j \in 0..(k - 1) : b[k] /\ ~b[j]

\* c = psf.size // 2; hwhm = np.argmax(np.abs(psf[c:]) <= 0.5)
HalfWidth(p) ==
  LET c == Size(p) \div 2
  IN  ArgMaxBool([k \in 0..(Size(p) - 1 - c) |-> AbsLeHalf(p[c + k])])

\* sigma = (2 * hwhm) / 2.355
Sigma(h) == Rat(2 * h * 1000, 2355)

\* x = np.arange(-extent, extent + 1); clean_beam has x's shape
BeamSize(ext) == Size(Arange(-ext, ext))

\* length of np.convolve(a, v, mode='same') for len(a) = n, len(v) = m
ConvolveSameSize(n, m) == IF n >= m THEN n ELSE m

\* whether `a += b` is defined for len(a) = n, len(b) = m (numpy broadcasting)
AddInPlaceOk(n, m) == m = n \/ m = 1

Beam ==
  /\ pc = "beam"
  /\ hwhm' = HalfWidth(psf)
  /\ sigma' = Sigma(hwhm')
  /\ extent' = hwhm' * 5
  /\ beam_size' = BeamSize(extent')
  /\ spectrum_size' = ConvolveSameSize(Size(clean_components), beam_size')
  /\ pc' = IF AddInPlaceOk(spectrum_size', Size(residual)) THEN "done" ELSE "ValueError"
  /\ UNCHANGED <<times, values, num_freqs, freqs, amps, freqs_psf, psf, gain,
                 num_iter, iter, clean_components, residual, idx_max, res_amp,
                 psf_mag, temp, aRe, aIm, sub, sub_total, psf_reads, warned>>

Next ==
  \/ ComputeDirty
  \/ ComputePSF
  \/ CleanInit
  \/ CleanBreak
  \/ CleanStep
  \/ CleanExit
  \/ Beam

Spec == Init /\ [][Next]_vars
\* ================================================================ properties
PsfBuilt == pc \notin {"dirty", "psf"}
LoopStarted == pc \notin {"dirty", "psf", "clean_init"}
BeamRun == pc \in {"done", "ValueError"}
\* the last iteration ran to its end and the loop has not been left
IterationCompleted == pc = "clean" /\ iter >= 1
Centre == Size(amps) \div 2
NonZero(C) == {j \in DOMAIN C : C[j] # CZero}

\* C1: with M = 2K+1 spectrum points and a PSF of 4K+1 points, every PSF index
\* an iteration reads (2*idx_max, j - idx_max + (M-1), j + idx_max for every
\* output index j, with K <= idx_max <= 2K) lies in 0..4K, and no run ends in
\* an IndexError.
C1_PsfReadsInBounds ==
  /\ pc # "IndexError"
  /\ PsfBuilt => Size(amps) = 2 * num_freqs + 1 /\ Size(psf) = 4 * num_freqs + 1
  /\ \A k \in psf_reads : 0 <= k /\ k <= 4 * num_freqs
  /\ psf_reads # {} => /\ num_freqs <= idx_max /\ idx_max <= 2 * num_freqs
                       /\ 2 * idx_max \in psf_reads
  /\ IterationCompleted =>
       \A j \in 0..(2 * num_freqs) :
         /\ j - idx_max + (Size(amps) - 1) \in psf_reads
         /\ j + idx_max \in psf_reads

\* a completed iteration whose reads touch both ends of the PSF
C1_Witness ==
  /\ IterationCompleted /\ num_freqs >= 1
  /\ 0 \in psf_reads /\ 4 * num_freqs \in psf_reads

\* C2 (as claimed): the convolution of the components with the clean beam has
\* the components' length M whatever the kernel's length, so adding the
\* residual to it is well-defined.
C2_ConvolutionKeepsLength ==
  BeamRun => spectrum_size = Size(clean_components) /\ pc # "ValueError"

\* C3 (as claimed): after a completed iteration, aRe and aIm are those computed
\* from the real and imaginary parts of the complex value PSF[2*idx_max].
C3_PeakFromComplexCoupling ==
  IterationCompleted =>
    LET w == psf[2 * idx_max]
        t == RSub(ROne, CAbsSq(w))
    IN  /\ temp = t
        /\ aRe = RDiv(RSub(RMul(res_amp.re, RSub(ROne, w.re)), RMul(res_amp.im, w.im)), t)
        /\ aIm = RDiv(RSub(RMul(res_amp.im, RAdd(ROne, w.re)), RMul(res_amp.re, w.im)), t)

\* the coupling |PSF[2*idx_max]| of the iteration about to run is exactly 1
DegenerateNow ==
  /\ pc = "clean" /\ iter < num_iter
  /\ CAbsSq(PyIndex(psf, 2 * PeakIndex(residual, amps))) = ROne

\* C4: an iteration that meets a coupling of magnitude exactly 1 leaves the
\* loop without a fault, names itself in the warning and changes neither the
\* components nor the residual; after it no further iteration runs.
C4_DegenerateCouplingStops ==
  [][ /\ DegenerateNow =>
           /\ pc' = "beam" /\ warned' = iter /\ iter' = iter
           /\ clean_components' = clean_components /\ residual' = residual
      /\ warned # -1 =>
           /\ pc' \in {"beam", "done", "ValueError"} /\ iter' = iter
           /\ clean_components' = clean_components /\ residual' = residual
    ]_vars

\* the loop was left by the warning after a completed iteration, and the loop
\* ended with the components that iteration built
C4_Witness ==
  /\ pc = "beam" /\ warned = 1 /\ iter = 1
  /\ clean_components # Zeros(Size(amps))

\* C5: at every iteration boundary the residual plus the sum of the vectors
\* subtracted so far is the dirty spectrum, and the dirty spectrum is still
\* what the estimator computed.
C5_ResidualAccounting ==
  LoopStarted =>
    /\ amps = DirtySpectrum(times, values, SpectrumGrid(num_freqs))
    /\ \A j \in DOMAIN amps : CAdd(residual[j], sub_total[j]) = amps[j]

\* two iterations have subtracted something
C5_Witness ==
  /\ IterationCompleted /\ iter >= 2
  /\ sub # Zeros(Size(amps)) /\ sub_total # sub /\ residual # amps

\* C6: with gain = 0 the components stay zero and the residual stays the
\* dirty spectrum, however the loop ends.
C6_ZeroGainNoOp ==
  (LoopStarted /\ gain = RZero) =>
    /\ clean_components = Zeros(Size(amps))
    /\ residual = amps

\* two iterations completed at gain 0 on a non-zero peak amplitude
C6_Witness ==
  /\ gain = RZero /\ IterationCompleted /\ iter >= 2
  /\ aRe # RZero /\ aIm # RZero

\* C7: if every sample value is 1, the dirty spectrum is the PSF restricted to
\* the spectrum's range: amps[i] = psf[i + K] for every i in 0..2K.
C7_UnitWeightEquivalence ==
  (PsfBuilt /\ \A n \in DOMAIN values : values[n] = 1) =>
    \A i \in 0..(2 * num_freqs) : amps[i] = PyIndex(psf, i + num_freqs)

\* unit values, several samples, a spectrum with a non-real entry
C7_Witness ==
  /\ PsfBuilt /\ \A n \in DOMAIN values : values[n] = 1
  /\ Len(times) >= 2 /\ num_freqs >= 2
  /\ \E i \in DOMAIN amps : amps[i].im # RZero /\ amps[i].re # RZero

\* C8: the peak index of every iteration lies in c..M-1 and holds a maximum
\* real part of the residual the iteration started from.
C8_PeakIsMaxOfResidual ==
  [][ (pc = "clean" /\ iter < num_iter) =>
        /\ Centre <= idx_max' /\ idx_max' <= Size(amps) - 1
        /\ \A j \in Centre..(Size(amps) - 1) :
             RLe(residual[j].re, residual[idx_max'].re)
        /\ res_amp' = residual[idx_max']
    ]_vars

\* a later iteration found its peak elsewhere than the dirty spectrum's peak
C8_Witness ==
  /\ IterationCompleted /\ iter >= 2
  /\ idx_max # PeakIndex(amps, amps)

\* C9 (as claimed): hwhm is the first offset from the PSF centre at which
\* |PSF| <= 0.5, also when the magnitude never drops that far.
C9_HalfWidthIsFirstDrop ==
  BeamRun =>
    LET c == Size(psf) \div 2
    IN  /\ AbsLeHalf(psf[c + hwhm])
        /\ \A k \in 0..(hwhm - 1) : ~AbsLeHalf(psf[c + k])

\* C10: a completed iteration adds gain*(aRe + i*aIm) to C[idx_max] and leaves
\* every other entry alone; every negative-frequency entry of C is zero and C
\* has at most as many non-zero entries as iterations completed.
C10_ComponentFrame ==
  /\ [](LoopStarted =>
          /\ \A j \in 0..(Centre - 1) : clean_components[j] = CZero
          /\ Cardinality(NonZero(clean_components)) <= iter)
  /\ [][ (pc = "clean" /\ iter' = iter + 1) =>
           /\ clean_components'[idx_max'] =
                CAdd(clean_components[idx_max'], CScale(Cx(aRe', aIm'), gain))
           /\ \A j \in DOMAIN clean_components \ {idx_max'} :
                clean_components'[j] = clean_components[j]
       ]_vars

\* two completed iterations left two non-zero components
C10_Witness ==
  /\ IterationCompleted /\ iter >= 2
  /\ Cardinality(NonZero(clean_components)) = 2

=============================================================================
